---- MODULE Spec2Model ----
(***************************************************************************)
(* Model of app.py, the Streamlit cryptocurrency dashboard.                *)
(*                                                                         *)
(* Spec is the program as its functions can be exercised:                  *)
(*  - fetch_crypto_data (lines 32-50), wrapped by st.cache_data(ttl=300).  *)
(*    The wrapper keeps one table for the function, shared by all the      *)
(*    sessions of the process.  A call reads the table; on a miss it takes *)
(*    the table's lock of its key, reads again, runs the body, which waits *)
(*    in exchange.fetch_ohlcv, and writes what the body returned into the  *)
(*    table it read.  A call that finds the lock of its key taken waits    *)
(*    for it.  The clock and other callers move meanwhile.  The exchange   *)
(*    is the environment: a call raises or returns one of a few candle     *)
(*    lists.                                                               *)
(*  - st.cache_data.clear() (line 67) replaces the table by a new, empty   *)
(*    one.  The calls under way keep the table they read, now dropped;     *)
(*    what they write there is seen only by the calls that wait on it.     *)
(*  - main() (lines 59-163), run on every session and every interaction:   *)
(*    the refresh button clears the table and reruns (lines 66-68); the    *)
(*    st.selectbox call of lines 70-74 is given the keyword `default`,     *)
(*    which st.selectbox does not have, so every run ends there with       *)
(*    TypeError and main() never reaches its fetch loop.                   *)
(*                                                                         *)
(* Lines 77-163 of main(), the fetch loop, the chart and the metrics, are  *)
(* therefore run by no script run: crypto_data, fig and shown stay as the  *)
(* start of a run finds them, and fetch_crypto_data is exercised as the    *)
(* function it is, by calls with any of the modelled arguments.            *)
(***************************************************************************)
EXTENDS Integers, Sequences, FiniteSets, Bags, TLC

VARIABLES
    now,          \* wall clock, in seconds
    ticks,        \* number of clock advances so far (bounded)
    cache,        \* st.cache_data's table for fetch_crypto_data: a set of entries
    dropped,      \* entries of the tables dropped by a clear that calls still hold
    fetches,      \* number of exchange.fetch_ohlcv calls issued so far
    inflight,     \* bag of the fetch_crypto_data calls under way
    served,       \* the most recent return of fetch_crypto_data, <<>> before the first
    pc,           \* position of the script run
    crypto_data,  \* the dict of line 79, in insertion order: <<[symbol, df]>>
    errors,       \* symbols an st.error box was shown for (line 49)
    fig,          \* traces added to the figure (lines 96-106): <<[symbol, x, y]>>
    shown         \* metric widgets rendered so far (lines 139-159):
                  \* <<[symbol, current_price, delta, daily_high, daily_low]>>

vars == <<now, ticks, cache, dropped, fetches, inflight, served, pc,
          crypto_data, errors, fig, shown>>

-----------------------------------------------------------------------------
(* Bounds of the model *)

MaxTicks == 1
MaxFetches == 2
MaxInflight == 2

-----------------------------------------------------------------------------
(* Program constants *)

TTL == 300

DayOptions == {7, 30, 90}
DefaultTimeframe == "1d"
symbols == <<"BTC/USDT", "ETH/USDT", "SOL/USDT">>

\* What fetch_crypto_data returns: a DataFrame (line 47) or None (line 50).
Frame(df) == [isNone |-> FALSE, df |-> df]
None == [isNone |-> TRUE, df |-> <<>>]

-----------------------------------------------------------------------------
(* The exchange: what fetch_ohlcv may return *)

DayMs == 24 * 60 * 60 * 1000

\* One OHLCV row as ccxt returns it: [timestamp ms, open, high, low, close, volume].
Row(k, o, h, l, c) == <<k * DayMs + 500 * k, o, h, l, c, 1>>

\* Candle lists the exchange answers with: three candles for any symbol, one
\* candle for the first symbol, three candles with a second-to-last close of
\* zero for the others.
OhlcvPool(symbol) ==
    { << Row(1, 99, 101, 98, 100), Row(2, 100, 107, 100, 105), Row(3, 105, 106, 94, 95) >>,
      IF symbol = symbols[1]
        THEN << Row(1, 100, 100, 100, 100) >>
        ELSE << Row(1, 99, 101, 98, 100), Row(2, 100, 100, 0, 0), Row(3, 0, 6, 0, 5) >> }

\* Arguments fetch_crypto_data is called with: the first symbol with two of
\* the counts line 72 offers, the second symbol with one of them, the
\* timeframe left at its default.
CallSymbols == {symbols[1], symbols[2]}
CallLimits == {d \in DayOptions : d < 90}
CallArgs ==
    {a \in {<<symbol, DefaultTimeframe, limit>> : symbol \in CallSymbols, limit \in CallLimits} :
        a[1] = symbols[1] \/ a[3] = 7}

-----------------------------------------------------------------------------
(* fetch_crypto_data's body, lines 35-50 *)

\* pd.to_datetime(ms, unit='ms'): a calendar instant, here day number and
\* millisecond of the day.
ToDatetime(ms) == [day |-> ms \div DayMs, msOfDay |-> ms % DayMs]

\* Lines 42-46: the DataFrame, one record per row, timestamp converted.
DataFrame(ohlcv) ==
    [ n \in 1..Len(ohlcv) |->
        [ timestamp |-> ToDatetime(ohlcv[n][1]),
          open      |-> ohlcv[n][2],
          high      |-> ohlcv[n][3],
          low       |-> ohlcv[n][4],
          close     |-> ohlcv[n][5],
          volume    |-> ohlcv[n][6] ] ]

-----------------------------------------------------------------------------
(* st.cache_data(ttl=300), line 32 *)

\* A key that leaves the count out.
CacheKey_WithoutLimit(symbol, timeframe, limit) == <<symbol, timeframe>>

\* The memo key: the arguments of the call.
CacheKey(symbol, timeframe, limit) == <<symbol, timeframe, limit>>

KeyOf(a) == CacheKey(a[1], a[2], a[3])

\* An entry dropped one second early.
IsLive_OneSecondShort(e, t) == t - e.fetchedAt < TTL - 1

\* An entry still served at the age of exactly the TTL.
IsLive_Inclusive(e, t) == t - e.fetchedAt <= TTL

\* An entry is served while its age is below the TTL.
IsLive(e, t) == t - e.fetchedAt < TTL

Lookup(c, k, t) == {e \in c : e.key = k /\ IsLive(e, t)}

\* Writing an entry replaces the one of the same key in the same table.
Store(c, e) == {x \in c : x.key # e.key \/ x.table # e.table} \cup {e}

\* st.cache_data.clear(), line 67: the function's table is a new, empty one.
Cleared(c) == {}

\* Tables are told apart by a number: 0 is the table calls read now, the
\* others are tables a clear has dropped.
Current == 0

\* The entries of a table.
TableOf(d) == IF d = Current THEN cache ELSE {e \in dropped : e.table = d}

\* A call of the same key runs the body under the lock of table d.
Locked(d, a) ==
    \E c \in BagToSet(inflight) : ~c.waiting /\ c.table = d /\ c.args = a

\* The entries of dropped tables some call under way can still read.
Held(entries, calls) ==
    {e \in entries : \E c \in BagToSet(calls) : c.table = e.table}

-----------------------------------------------------------------------------

Init ==
    /\ now = 0
    /\ ticks = 0
    /\ cache = {}
    /\ dropped = {}
    /\ fetches = 0
    /\ inflight = EmptyBag
    /\ served = <<>>
    /\ pc = "start"
    /\ crypto_data = <<>>
    /\ errors = {}
    /\ fig = <<>>
    /\ shown = <<>>

\* What a return of fetch_crypto_data to its caller leaves in served.  The
\* fields after value are history: the arguments of the fetch_ohlcv call that
\* produced the value, whether this call made it, whether the call began
\* before the latest clear, whether the value comes from a table since
\* dropped, whether the fetch was made on finding an expired entry, whether
\* the call ended in an exception instead of a return.
Return(a, val, origin, fresh, early, stale, sawExpired, raised) ==
    served' = << [symbol |-> a[1], limit |-> a[3], value |-> val, origin |-> origin,
                  fresh |-> fresh, early |-> early, stale |-> stale,
                  refreshed |-> sawExpired, raised |-> raised] >>

\* The st.error box of line 49, shown when the body runs into the exception
\* and shown again whenever the memoized None is served.
ErrorBox(symbol, val) ==
    errors' = IF val.isNone THEN errors \cup {symbol} ELSE errors

\* fetch_crypto_data(symbol, limit=...) served by st.cache_data from a live
\* entry: the body does not run.
FetchCached ==
    /\ \E a \in CallArgs :
         \E e \in Lookup(cache, KeyOf(a), now) :
            /\ Return(a, e.value, e.origin, FALSE, FALSE, e.table # Current,
                      e.sawExpired, FALSE)
            /\ ErrorBox(a[1], e.value)
    /\ UNCHANGED <<now, ticks, cache, dropped, fetches, inflight, pc,
                   crypto_data, fig, shown>>

\* No live entry and the lock of the key is free: the call takes it, the body
\* runs and calls fetch_ohlcv (lines 36-40), where the caller waits.
FetchMiss ==
    /\ fetches < MaxFetches
    /\ BagCardinality(inflight) < MaxInflight
    /\ \E a \in CallArgs :
         /\ Lookup(cache, KeyOf(a), now) = {}
         /\ ~Locked(Current, a)
         /\ inflight' = inflight (+) SetToBag({
                [args |-> a, table |-> Current, waiting |-> FALSE,
                 sawExpired |-> \E e \in cache : e.key = KeyOf(a)]})
    /\ fetches' = fetches + 1
    /\ UNCHANGED <<now, ticks, cache, dropped, served, pc,
                   crypto_data, errors, fig, shown>>

\* No live entry and another call of the same key holds the lock: the call
\* waits for the lock and calls nothing.
FetchBlock ==
    /\ BagCardinality(inflight) < MaxInflight
    /\ \E a \in CallArgs :
         /\ Lookup(cache, KeyOf(a), now) = {}
         /\ Locked(Current, a)
         /\ inflight' = inflight (+) SetToBag({
                [args |-> a, table |-> Current, waiting |-> TRUE, sawExpired |-> FALSE]})
    /\ UNCHANGED <<now, ticks, cache, dropped, fetches, served, pc,
                   crypto_data, errors, fig, shown>>

\* A waiting call gets the lock and reads its table again: the entry the
\* holder of the lock wrote is there and is returned.
ResumeCached ==
    /\ \E c \in BagToSet(inflight) :
         /\ c.waiting
         /\ ~Locked(c.table, c.args)
         /\ \E e \in Lookup(TableOf(c.table), KeyOf(c.args), now) :
               /\ Return(c.args, e.value, e.origin, FALSE, c.table # Current,
                         e.table # Current, e.sawExpired, FALSE)
               /\ ErrorBox(c.args[1], e.value)
         /\ inflight' = inflight (-) SetToBag({c})
         /\ dropped' = Held(dropped, inflight')
    /\ UNCHANGED <<now, ticks, cache, fetches, pc, crypto_data, fig, shown>>

\* A waiting call gets the lock and finds no live entry in its table (the one
\* written has expired meanwhile): it runs the body itself.
ResumeMiss ==
    /\ fetches < MaxFetches
    /\ \E c \in BagToSet(inflight) :
         /\ c.waiting
         /\ ~Locked(c.table, c.args)
         /\ Lookup(TableOf(c.table), KeyOf(c.args), now) = {}
         /\ inflight' = (inflight (-) SetToBag({c})) (+) SetToBag({
                [c EXCEPT !.waiting = FALSE,
                          !.sawExpired = \E e \in TableOf(c.table) : e.key = KeyOf(c.args)]})
    /\ fetches' = fetches + 1
    /\ UNCHANGED <<now, ticks, cache, dropped, served, pc,
                   crypto_data, errors, fig, shown>>

\* The entry st.cache_data writes at time t once the body of call c has
\* returned val.
NewEntry(c, val, t) ==
    [key |-> KeyOf(c.args), value |-> val, fetchedAt |-> t, table |-> c.table,
     origin |-> c.args, sawExpired |-> c.sawExpired]

\* A write that goes to whatever table is current.
WriteTable_Current(c) == Current

\* The table a call writes to: the one it read, also when a clear has
\* dropped it since.
WriteTable(c) == c.table

\* The body of call c has returned val at time t: the write, the return to the
\* caller, the release of the lock.
Written(c, val, t, raised) ==
    /\ inflight' = inflight (-) SetToBag({c})
    /\ IF WriteTable(c) = Current
         THEN /\ cache' = Store(cache, NewEntry(c, val, t))
              /\ dropped' = Held(dropped, inflight')
         ELSE /\ cache' = cache
              /\ dropped' = Held(Store(dropped, NewEntry(c, val, t)), inflight')
    /\ Return(c.args, val, c.args, TRUE, c.table # Current, c.table # Current,
              c.sawExpired, raised)

\* fetch_ohlcv returns rows: lines 42-47, then the write.
FetchFresh ==
    /\ \E c \in BagToSet(inflight) : \E ohlcv \in OhlcvPool(c.args[1]) :
         /\ ~c.waiting
         /\ Written(c, Frame(DataFrame(ohlcv)), now, FALSE)
    /\ UNCHANGED <<now, ticks, fetches, pc, crypto_data, errors, fig, shown>>

\* fetch_crypto_data without its try/except: the exception reaches the caller
\* and nothing is memoized.
FetchError_Uncaught ==
    /\ \E c \in BagToSet(inflight) :
         /\ ~c.waiting
         /\ Return(c.args, None, c.args, TRUE, c.table # Current, c.table # Current,
                   c.sawExpired, TRUE)
         /\ inflight' = inflight (-) SetToBag({c})
         /\ dropped' = Held(dropped, inflight')
    /\ UNCHANGED <<now, ticks, cache, fetches, pc, crypto_data, errors, fig, shown>>

\* fetch_ohlcv raises: lines 48-50 show the error box and return None, and the
\* decorator memoizes that return value like any other.
FetchError ==
    /\ \E c \in BagToSet(inflight) :
         /\ ~c.waiting
         /\ Written(c, None, now, FALSE)
         /\ ErrorBox(c.args[1], None)
    /\ UNCHANGED <<now, ticks, fetches, pc, crypto_data, fig, shown>>

-----------------------------------------------------------------------------
(* main(), lines 59-74 *)

\* Lines 60-74 with the button not pressed: st.selectbox has no parameter
\* `default`, the call raises TypeError and the run ends with the exception
\* box below the button; `days` is never bound.
SelectboxRaises ==
    /\ pc = "start"
    /\ pc' = "crashed"
    /\ UNCHANGED <<now, ticks, cache, dropped, fetches, inflight, served,
                   crypto_data, errors, fig, shown>>

\* The number a clear gives the table it drops: the least one no call under
\* way uses.
DroppedId(calls) ==
    CHOOSE d \in 1..(MaxInflight + 1) :
       /\ \A c \in BagToSet(calls) : c.table # d
       /\ \A m \in 1..(d - 1) : \E c \in BagToSet(calls) : c.table = m

\* The calls under way after a clear: those of the table just dropped keep
\* holding it.
BeforeClear(calls) ==
    LET d == DroppedId(calls)
        moved(c) == IF c.table = Current THEN [c EXCEPT !.table = d] ELSE c
    IN  [c \in {moved(x) : x \in BagToSet(calls)} |->
            IF c.table = d THEN CopiesIn([c EXCEPT !.table = Current], calls)
                           ELSE CopiesIn(c, calls)]

\* Lines 66-68: the button is pressed, the table is replaced by an empty one
\* and the script reruns, to end at the selectbox call again.  The calls
\* under way go on with the table they hold.
RefreshData ==
    /\ pc = "crashed"
    /\ cache' = Cleared(cache)
    /\ inflight' = BeforeClear(inflight)
    /\ dropped' = Held(dropped \cup {[e EXCEPT !.table = DroppedId(inflight)] : e \in cache},
                       inflight')
    /\ pc' = "crashed"
    /\ UNCHANGED <<now, ticks, fetches, served, crypto_data, errors, fig, shown>>

\* Time passes, by the TTL or by one second less, so that ages of 299 and of
\* 300 seconds both occur.
TickSizes == {TTL - 1, TTL}

Tick ==
    /\ ticks < MaxTicks
    /\ \E d \in TickSizes : now' = now + d
    /\ ticks' = ticks + 1
    /\ UNCHANGED <<cache, dropped, fetches, inflight, served, pc,
                   crypto_data, errors, fig, shown>>

Next ==
    \/ FetchCached
    \/ FetchMiss
    \/ FetchBlock
    \/ ResumeCached
    \/ ResumeMiss
    \/ FetchFresh
    \/ FetchError
    \/ SelectboxRaises
    \/ RefreshData
    \/ Tick

Spec == Init /\ [][Next]_vars

-----------------------------------------------------------------------------
(* Vocabulary of the properties *)

LastServed == served[1]

\* The arguments of the call that returned last.
LastArgs == <<LastServed.symbol, DefaultTimeframe, LastServed.limit>>

\* A call of fetch_crypto_data returns to its caller in this step (a return
\* equal in everything to the one before it leaves no trace).
Returns == served' # served

\* The calls that wait in fetch_ohlcv.
Fetching(calls) == {c \in BagToSet(calls) : ~c.waiting}

\* The call that starts waiting in fetch_ohlcv in this step.
Issued == CHOOSE c \in Fetching(inflight') : CopiesIn(c, inflight') > CopiesIn(c, inflight)

\* The entries written by calls with the arguments a.
EntriesFor(c, a) == {e \in c : e.origin = a}

\* The entries of the table the call that returned last had read.
TableRead(early) == IF early THEN dropped ELSE cache

\* A script run has ended, normally or in an exception.
RunEnded == pc \in {"done", "crashed"}

\* The series fetch_crypto_data holds for a symbol: the frames its calls for
\* the symbol have returned and the table serves.
Series(symbol) == {e.value.df : e \in {x \in cache : x.origin[1] = symbol /\ ~x.value.isNone}}

\* The symbol has one series, and what its length and reference price are.
OneSeries(symbol) == Cardinality(Series(symbol)) = 1
TheSeries(symbol) == CHOOSE df \in Series(symbol) : TRUE
Short(symbol) == OneSeries(symbol) /\ Len(TheSeries(symbol)) < 2
Long(symbol) == OneSeries(symbol) /\ Len(TheSeries(symbol)) >= 2
ZeroReference(symbol) ==
    Long(symbol) /\ TheSeries(symbol)[Len(TheSeries(symbol)) - 1].close = 0
Priced(symbol) ==
    Long(symbol) /\ TheSeries(symbol)[Len(TheSeries(symbol)) - 1].close # 0

Closes(df) == [n \in 1..Len(df) |-> df[n].close]

Abs(x) == IF x < 0 THEN -x ELSE x

HasWidget(symbol) == \E n \in 1..Len(shown) : shown[n].symbol = symbol

-----------------------------------------------------------------------------
(* C1 *)

\* C1: while an entry written for k less than 300 seconds ago is in the table
\* (an earlier call stored it and nothing cleared it since), a call for k
\* finds it and no fetch_ohlcv call is issued for k by a call that reads this
\* table; calls for k that overlap on one table never wait in fetch_ohlcv
\* together; and a call answered from its table issues nothing, writes nothing
\* and returns the value of a live entry of its own key.
C1_RepeatedGetServedFromCache ==
    [][ /\ \A e \in cache :
              now - e.fetchedAt < 300 =>
                 /\ Lookup(cache, e.key, now) = {e}
                 /\ (fetches' > fetches =>
                        ~(Issued.args = e.origin /\ Issued.table = Current))
        /\ \A c1, c2 \in Fetching(inflight') :
              (c1.args = c2.args /\ c1.table = c2.table) =>
                  (c1 = c2 /\ CopiesIn(c1, inflight') = 1)
        /\ (Returns /\ ~LastServed'.fresh) =>
               /\ fetches' = fetches
               /\ cache' = cache
               /\ \E e \in EntriesFor(TableRead(LastServed'.early), LastArgs') :
                     now - e.fetchedAt < 300 /\ e.value = LastServed'.value]_vars

\* A call was just answered from an entry holding a frame, 299 seconds after
\* the entry was written, the one fetch_ohlcv call so far being the one that
\* produced it.
C1_Witness ==
    /\ served # <<>>
    /\ ~LastServed.fresh
    /\ ~LastServed.early
    /\ ~LastServed.value.isNone
    /\ fetches = 1
    /\ \E e \in EntriesFor(cache, LastArgs) :
          now - e.fetchedAt = 299 /\ e.value = LastServed.value

-----------------------------------------------------------------------------
(* C2 *)

\* C2: a failed fetch is not cached: the table never holds an entry whose
\* value is the None of a failed call.
C2_FailureNotCached ==
    \A e \in cache : ~e.value.isNone

-----------------------------------------------------------------------------
(* C3 *)

\* C3: the clear leaves the table without entries and without a call that
\* fetches for it, so the first call for any key after it issues a fetch_ohlcv
\* call; the table never holds an entry fetched by a call that began before
\* the latest clear; and a call that began after the latest clear is never
\* answered with such an entry.
C3_InvalidateAllForcesFetch ==
    [][ /\ RefreshData =>
               /\ cache' = {}
               /\ \A c \in BagToSet(inflight') : c.table # Current
               /\ \A a \in CallArgs : Lookup(cache', KeyOf(a), now') = {} /\ ~Locked(Current, a)'
        /\ \A e \in cache' : e.table = Current
        /\ (Returns /\ ~LastServed'.early) => ~LastServed'.stale
        /\ (Returns /\ ~LastServed'.early /\ ~LastServed'.fresh) =>
               \E e \in EntriesFor(cache, LastArgs') :
                  e.table = Current /\ e.value = LastServed'.value]_vars

\* A call that began after a clear has just returned what it fetched itself,
\* the second fetch of its key, while a table dropped by the clear holds an
\* entry of the same key with another value, younger than the TTL.
C3_Witness ==
    /\ served # <<>>
    /\ LastServed.fresh
    /\ ~LastServed.early
    /\ fetches = 2
    /\ \E e \in EntriesFor(cache, LastArgs) : e.value = LastServed.value
    /\ \E e \in EntriesFor(dropped, LastArgs) :
          IsLive(e, now) /\ e.value # LastServed.value

-----------------------------------------------------------------------------
(* C4 *)

\* C4: once an entry is 300 seconds old a call for its key no longer finds
\* it; a step issues at most one fetch_ohlcv call, made by a call whose table
\* holds no entry of its key younger than 300 seconds; when that call returns
\* rows to a call of the current table, the table holds exactly one entry for
\* the key, with the returned value and the time of the write; and a later
\* call answered from its table after such a refresh is answered from an entry
\* written after the expiry and younger than 300 seconds.
C4_ExpiredEntryRefetchedOnce ==
    [][ /\ \A e \in cache :
              now - e.fetchedAt >= 300 => Lookup(cache, e.key, now) = {}
        /\ fetches' # fetches =>
               /\ fetches' = fetches + 1
               /\ Cardinality(Fetching(inflight')) = Cardinality(Fetching(inflight)) + 1
               /\ \A e \in EntriesFor(TableOf(Issued.table), Issued.args) :
                     now - e.fetchedAt >= 300
        /\ (Returns /\ LastServed'.fresh /\ ~LastServed'.value.isNone) =>
               /\ fetches' = fetches
               /\ IF LastServed'.early
                    THEN cache' = cache
                    ELSE \E e \in cache' :
                            /\ EntriesFor(cache', LastArgs') = {e}
                            /\ e.fetchedAt = now
                            /\ e.value = LastServed'.value
        /\ (Returns /\ ~LastServed'.fresh /\ LastServed'.refreshed) =>
               \E e \in EntriesFor(TableRead(LastServed'.early), LastArgs') :
                  /\ e.sawExpired
                  /\ now - e.fetchedAt < 300
                  /\ e.value = LastServed'.value]_vars

\* A call was just answered from an entry that replaced an expired one: the
\* key was fetched twice, and the entry in the table was written when the
\* clock had passed 300.
C4_Witness ==
    /\ served # <<>>
    /\ ~LastServed.fresh
    /\ LastServed.refreshed
    /\ ~LastServed.early
    /\ fetches = 2
    /\ \E e \in EntriesFor(cache, LastArgs) : e.fetchedAt >= 300 /\ e.value = LastServed.value

-----------------------------------------------------------------------------
(* C5 *)

\* C5: a call whose fetch_ohlcv raised returns to its caller (None, no
\* exception, so the loop of lines 82-85 goes on to the next symbol), issues
\* nothing, and leaves the entry of every other key as it was.
C5_FailureLeavesOtherSymbolsAlone ==
    [][(Returns /\ LastServed'.fresh /\ LastServed'.value.isNone) =>
          /\ ~LastServed'.raised
          /\ fetches' = fetches
          /\ \A e \in cache : e.origin # LastArgs' => e \in cache'
          /\ \A e \in cache' : e.origin # LastArgs' => e \in cache]_vars

\* A call for one symbol has just failed while the table holds a frame for
\* the other symbol, younger than the TTL.
C5_Witness ==
    /\ served # <<>>
    /\ LastServed.fresh
    /\ LastServed.value.isNone
    /\ \E e \in cache :
          /\ e.origin[1] # LastServed.symbol
          /\ ~e.value.isNone
          /\ IsLive(e, now)

-----------------------------------------------------------------------------
(* C6 *)

\* C6: when the series of one symbol has fewer than 2 candles and that of
\* another has at least 2 with a nonzero reference price, a run that has ended
\* has not crashed, shows no metrics for the first and shows the metrics of
\* the second.
C6_ShortSeriesOmittedOthersRendered ==
    (/\ RunEnded
     /\ \E s \in CallSymbols : Short(s)
     /\ \E s \in CallSymbols : Priced(s)) =>
       /\ pc # "crashed"
       /\ \A s \in CallSymbols : Short(s) => ~HasWidget(s)
       /\ \A s \in CallSymbols : Priced(s) => HasWidget(s)

-----------------------------------------------------------------------------
(* C7 *)

\* C7: when the series of one symbol has a second-to-last close of zero and
\* that of another has at least 2 candles and a nonzero one, a run that has
\* ended shows no metrics for the first and shows the metrics of the second.
C7_ZeroReferencePriceOmitted ==
    (/\ RunEnded
     /\ \E s \in CallSymbols : ZeroReference(s)
     /\ \E s \in CallSymbols : Priced(s)) =>
       /\ \A s \in CallSymbols : ZeroReference(s) => ~HasWidget(s)
       /\ \A s \in CallSymbols : Priced(s) => HasWidget(s)

-----------------------------------------------------------------------------
(* C8 *)

-----------------------------------------------------------------------------
(* C9 *)

-----------------------------------------------------------------------------
(* C10 *)

\* C10: every value fetch_crypto_data returns was produced by a fetch_ohlcv
\* call made with the symbol, timeframe and count of the call it is returned
\* to; every entry is filed under the arguments it was fetched with; and a
\* table holds at most one entry per key.
C10_ServedValueBelongsToKey ==
    /\ (served # <<>> => LastServed.origin = LastArgs)
    /\ \A e \in cache \cup dropped : e.key = e.origin
    /\ \A e1, e2 \in cache \cup dropped :
          (e1.origin = e2.origin /\ e1.table = e2.table) => e1 = e2

\* A call with count 7 was just answered with a freshly fetched frame while
\* the table holds, for the same symbol and count 30, a live entry with
\* another frame.
C10_Witness ==
    /\ served # <<>>
    /\ LastServed.limit = 7
    /\ ~LastServed.value.isNone
    /\ \E e \in cache :
          /\ e.origin = <<LastServed.symbol, DefaultTimeframe, 30>>
          /\ IsLive(e, now)
          /\ ~e.value.isNone
          /\ e.value # LastServed.value

====
